---- MODULE Spec2Model ----
(***************************************************************************)
(* Model of the Flask wrapper around the LBC client (src/app.py): the      *)
(* DatadomeProtection singleton (rate limiting, proxy rotation, retry with *)
(* exponential backoff) and the four HTTP routes that reach the backend.   *)
(*                                                                         *)
(* Time is counted in whole seconds.  A request thread is one caller; the  *)
(* steps of a caller are the reads and writes it makes of the shared       *)
(* singleton, so that every interleaving of attribute accesses the         *)
(* interpreter allows is a behaviour of the model.                         *)
(***************************************************************************)
EXTENDS Integers, Sequences, FiniteSets, TLC

(***************************************************************************)
(* Bounds of the model.                                                    *)
(***************************************************************************)
MaxPool == 3            \* largest proxy pool _load_proxies may return
MaxRetriesBound == 3    \* largest max_retries passed to retry_with_backoff
MaxTime == 5            \* seconds of wall clock explored, one thread
MaxTimeConc == 3        \* seconds of wall clock explored, two threads
MaxOps == 2             \* HTTP requests served over the explored run
MaxValue == 2           \* distinct result values the backend may return
MaxLen == 3             \* elements of a list filter
MaxCents == 250         \* price_cents of the small prices explored
MaxConfig == 6          \* largest delay a configuration update asks for
MaxTimeCursor == 2      \* seconds of wall clock explored, two threads and two proxies

(***************************************************************************)
(* Program constants.                                                      *)
(***************************************************************************)
MinDelayDefault == 2    \* self.min_delay = 2
MaxDelayDefault == 5    \* self.max_delay = 5
DefaultMaxRetries == 3  \* def retry_with_backoff(self, func, max_retries=3)

\* time.time() at process start, in seconds after the value 0 that
\* last_request_time is initialised with: far more than any delay.
StartTime == MaxDelayDefault + 1

Callers == {1, 2}
Routes == {"search", "search_url", "get_ad", "get_user"}
NoProxy == 0            \* get_next_proxy returned None
NoAgent == 0            \* no user agent handed to the client
UserAgentCount == 5     \* len(self.user_agents)
NoValue == 0            \* None

VARIABLES
    \* DatadomeProtection (the process-wide singleton `protection`)
    request_count, last_request_time, min_delay, max_delay,
    proxies, current_proxy_index,
    \* wall clock
    now,
    \* the run explored: its request threads, the max_retries values its
    \* searches run with, the seconds of wall clock it lasts, the requests it
    \* serves, the result values its backend returns
    threads, retryChoices, horizon, opsBound, values,
    \* per request thread: position and locals
    pc, route, attempt, max_retries, tmp, proxy, wake, inRetry, badFilter,
    \* per request thread: what the route answered
    status, exc, ret,
    \* per request thread: the user agent of the client built for the
    \* attempt, and the rate-gate passes and the requests sent to the
    \* backend in the current operation
    agent, gated, sends,
    \* history of the current operation of each thread
    outcomes, waits, picks, usedNow, prevUsed,
    \* history of the whole run
    gatePasses, selections, nUsed, lastProxy, lastSend, lastGap, opsStarted,
    \* the requests sent to the backend since the server started
    issued,
    \* a function of the program studied on its own: its argument, its
    \* result, and whether it has been applied
    arg, result, applied

shared == <<request_count, last_request_time, min_delay, max_delay,
            proxies, current_proxy_index>>
locals == <<pc, route, attempt, max_retries, tmp, proxy, wake, inRetry,
            badFilter, status, exc, ret>>
opHist == <<outcomes, waits, picks, usedNow, prevUsed>>
runHist == <<gatePasses, selections, nUsed, lastProxy, lastSend, lastGap,
             opsStarted, issued>>
run == <<threads, retryChoices, horizon, opsBound, values>>
opAux == <<agent, gated, sends>>
pure == <<arg, result, applied>>
vars == <<shared, now, run, pure, opAux, pure, opAux, locals, opHist, runHist>>

(***************************************************************************)
(* Exceptions.  DatadomeError is a RequestError; InvalidValue, RequestError*)
(* and NotFoundError are LBCError; everything is an Exception.             *)
(***************************************************************************)
ParentClass(c) ==
    CASE c = "DatadomeError" -> "RequestError"
      [] c = "RequestError"  -> "LBCError"
      [] c = "InvalidValue"  -> "LBCError"
      [] c = "NotFoundError" -> "LBCError"
      [] OTHER               -> "Exception"

RECURSIVE IsSubclass(_, _)
IsSubclass(c, d) ==
    IF c = d THEN TRUE
    ELSE IF c = "Exception" THEN FALSE
    ELSE IsSubclass(ParentClass(c), d)

(***************************************************************************)
(* The except clauses of the routes, in source order: <<class, status>>.   *)
(***************************************************************************)
SearchHandlersSwapped ==
    << <<"RequestError", 500>>, <<"DatadomeError", 403>>, <<"Exception", 500>> >>

SearchHandlers ==
    << <<"DatadomeError", 403>>, <<"RequestError", 500>>, <<"Exception", 500>> >>

SearchUrlHandlers ==
    << <<"DatadomeError", 403>>, <<"RequestError", 500>>, <<"Exception", 500>> >>

AdHandlersNoNotFound ==
    << <<"DatadomeError", 403>>, <<"RequestError", 500>>, <<"Exception", 500>> >>

AdHandlers ==
    << <<"NotFoundError", 404>>, <<"DatadomeError", 403>>,
       <<"RequestError", 500>>, <<"Exception", 500>> >>

UserHandlers ==
    << <<"NotFoundError", 404>>, <<"DatadomeError", 403>>,
       <<"RequestError", 500>>, <<"Exception", 500>> >>

Handlers(r) ==
    CASE r = "search"     -> SearchHandlers
      [] r = "search_url" -> SearchUrlHandlers
      [] r = "get_ad"     -> AdHandlers
      [] r = "get_user"   -> UserHandlers

\* The first except clause whose class the raised exception is an instance of.
Dispatch(r, e) ==
    LET h == Handlers(r)
        i == CHOOSE k \in 1..Len(h) :
                 /\ IsSubclass(e, h[k][1])
                 /\ \A j \in 1..(k - 1) : ~IsSubclass(e, h[j][1])
    IN  h[i][2]

(***************************************************************************)
(* What a call of the LBC client can end in.                               *)
(***************************************************************************)
ClientOutcomes(r) ==
    CASE r = "search"     -> {"ok", "blocked", "error", "timeout"}
      [] r = "search_url" -> {"ok", "blocked", "error", "timeout"}
      [] r = "get_ad"     -> {"ok", "blocked", "error", "timeout", "notfound"}
      [] r = "get_user"   -> {"ok", "blocked", "error", "timeout", "notfound"}

Raised(o) ==
    CASE o = "blocked"  -> "DatadomeError"
      [] o = "error"    -> "RequestError"
      [] o = "notfound" -> "NotFoundError"
      [] o = "invalid"  -> "InvalidValue"
      [] o = "timeout"  -> "Timeout"

(***************************************************************************)
(* retry_with_backoff: the pieces of the loop.                             *)
(***************************************************************************)
\* except DatadomeError
IsRetryableAnyRequestError(e) == IsSubclass(e, "RequestError")

IsRetryable(e) == IsSubclass(e, "DatadomeError")

\* if attempt == max_retries - 1: raise e
LastAttemptOffByOne(a, n) == a >= n - 2

\* No attempt is taken for the last one.
LastAttemptNever(a, n) == FALSE

LastAttempt(a, n) == a = n - 1

\* One attempt count for the whole server, every caller's blocks in it.
AttemptShared(t) == attempt[1] + attempt[2]

\* for attempt in range(max_retries): the loop variable is a local of the
\* call of retry_with_backoff that thread t is running.
AttemptOf(t) == attempt[t]

\* A wait that does not grow with the attempts.
WaitTimeConstant(a, r) == 1 + r

\* wait_time = 2 ** attempt + random.uniform(0, 1)
WaitTime(a, r) == 2 ^ a + r

\* random.uniform(a, b), in whole seconds: a + (b - a) * random() lies
\* between the two arguments, whichever is the larger.
Uniform(a, b) == IF a <= b THEN a..b ELSE b..a

(***************************************************************************)
(* Initial state: DatadomeProtection.__init__ and an idle server.          *)
(***************************************************************************)
\* _load_proxies returns the list written into it: empty as shipped, or the
\* proxies of the deployment.  Proxy i of a pool is its i-th entry.
Pools == { [i \in 1..n |-> i] : n \in 0..MaxPool }

InitCommon ==
    /\ request_count = 0
    /\ last_request_time = 0
    /\ min_delay = MinDelayDefault
    /\ max_delay = MaxDelayDefault
    /\ current_proxy_index = 0
    /\ now = StartTime
    /\ pc = [t \in Callers |-> "idle"]
    /\ route = [t \in Callers |-> "search"]
    /\ attempt = [t \in Callers |-> 0]
    /\ max_retries = [t \in Callers |-> 0]
    /\ tmp = [t \in Callers |-> 0]
    /\ proxy = [t \in Callers |-> NoProxy]
    /\ wake = [t \in Callers |-> 0]
    /\ inRetry = [t \in Callers |-> FALSE]
    /\ badFilter = [t \in Callers |-> FALSE]
    /\ status = [t \in Callers |-> 0]
    /\ exc = [t \in Callers |-> "none"]
    /\ ret = [t \in Callers |-> NoValue]
    /\ agent = [t \in Callers |-> NoAgent]
    /\ gated = [t \in Callers |-> 0]
    /\ sends = [t \in Callers |-> 0]
    /\ outcomes = [t \in Callers |-> <<>>]
    /\ waits = [t \in Callers |-> 0]
    /\ picks = [t \in Callers |-> 0]
    /\ usedNow = [t \in Callers |-> NoProxy]
    /\ prevUsed = [t \in Callers |-> NoProxy]
    /\ gatePasses = 0
    /\ selections = 0
    /\ nUsed = 0
    /\ lastProxy = NoProxy
    /\ lastSend = -1
    /\ lastGap = -1
    /\ opsStarted = 0
    /\ issued = 0

\* No function is studied on its own while the server runs.
NoPure ==
    /\ arg = <<>>
    /\ result = <<>>
    /\ applied = FALSE

\* The server takes no request while a function is studied on its own.
NoServer ==
    /\ InitCommon
    /\ proxies = <<>>
    /\ threads = {}
    /\ retryChoices = {}
    /\ horizon = 0
    /\ opsBound = 0
    /\ values = {}

\* One request thread; retry_with_backoff is explored for every max_retries
\* up to the bound.
Init ==
    /\ InitCommon
    /\ proxies \in Pools
    /\ threads = {1}
    /\ retryChoices = 0..MaxRetriesBound
    /\ horizon = MaxTime
    /\ opsBound = MaxOps
    /\ values = 1..MaxValue
    /\ NoPure

\* Two request threads, each serving one request, concurrently;
\* retry_with_backoff runs with the default max_retries, as search_ads calls it.
InitConc ==
    /\ InitCommon
    /\ proxies = [i \in 1..MaxPool |-> i]
    /\ threads = Callers
    /\ retryChoices = {DefaultMaxRetries}
    /\ horizon = MaxTimeConc
    /\ opsBound = Cardinality(Callers)
    /\ values = {1}
    /\ NoPure

\* The same two threads in a deployment with two proxies, over a shorter
\* time.
InitConcTwoProxies ==
    /\ InitCommon
    /\ proxies = <<1, 2>>
    /\ threads = Callers
    /\ retryChoices = {DefaultMaxRetries}
    /\ horizon = MaxTimeCursor
    /\ opsBound = Cardinality(Callers)
    /\ values = {1}
    /\ NoPure

\* The same two threads in a deployment with a single proxy.
InitConcOneProxy ==
    /\ InitCommon
    /\ proxies = <<1>>
    /\ threads = Callers
    /\ retryChoices = {DefaultMaxRetries}
    /\ horizon = MaxTimeConc
    /\ opsBound = Cardinality(Callers)
    /\ values = {1}
    /\ NoPure


(***************************************************************************)
(* The server hands the next incoming request to an idle request thread,   *)
(* the threads taking turns.                                               *)
(***************************************************************************)
Serves(t) ==
    /\ t \in threads
    /\ pc[t] = "idle"
    /\ opsStarted < opsBound
    /\ t = (opsStarted % Cardinality(threads)) + 1

(***************************************************************************)
(* Helpers: how a route ends.                                              *)
(***************************************************************************)
\* The route answers with HTTP status s; e is the exception its handlers
\* caught ("none" on success) and v the value the operation returned.
Answer(t, s, e, v) ==
    /\ status' = [status EXCEPT ![t] = s]
    /\ exc' = [exc EXCEPT ![t] = e]
    /\ ret' = [ret EXCEPT ![t] = v]
    /\ pc' = [pc EXCEPT ![t] = "done"]

\* A request leaves for the backend at the current time.
RecordSend(t) ==
    /\ sends' = [sends EXCEPT ![t] = sends[t] + 1]
    /\ issued' = issued + 1
    /\ lastSend' = now
    /\ lastGap' = IF lastSend = -1 THEN -1 ELSE now - lastSend

(***************************************************************************)
(* POST /api/search: search_ads up to the rate gate.                       *)
(***************************************************************************)
\* request.get_json() is empty: 400 before anything else happens.
search_ads_no_data(t) ==
    /\ Serves(t)
    /\ opsStarted' = opsStarted + 1
    /\ route' = [route EXCEPT ![t] = "search"]
    /\ Answer(t, 400, "none", NoValue)
    /\ UNCHANGED <<shared, now, run, pure, opAux, attempt, max_retries, tmp, proxy,
                   wake, inRetry, badFilter, opHist, gatePasses, selections,
                   nUsed, lastProxy, lastSend, lastGap, issued>>

\* Parameters are extracted and the filters prepared; the route then calls
\* protection.apply_rate_limiting().  bad: an enum filter mixes value types.
\* n: the max_retries that retry_with_backoff will run with.
search_ads_start(t) ==
    /\ Serves(t)
    /\ \E bad \in BOOLEAN, n \in retryChoices :
          /\ badFilter' = [badFilter EXCEPT ![t] = bad]
          /\ max_retries' = [max_retries EXCEPT ![t] = n]
    /\ opsStarted' = opsStarted + 1
    /\ route' = [route EXCEPT ![t] = "search"]
    /\ pc' = [pc EXCEPT ![t] = "rl_read"]
    /\ UNCHANGED <<shared, now, run, pure, opAux, attempt, tmp, proxy, wake, inRetry,
                   status, exc, ret, opHist, gatePasses, selections, nUsed,
                   lastProxy, lastSend, lastGap, issued>>

(***************************************************************************)
(* DatadomeProtection.apply_rate_limiting                                  *)
(***************************************************************************)
\* current_time = time.time(); time_since_last = current_time -
\* self.last_request_time; the sleep time is computed when it is too short.
\* time.sleep of a negative time raises ValueError, which search_ads answers
\* through except Exception.
apply_rate_limiting_read(t) ==
    /\ pc[t] = "rl_read"
    /\ LET time_since_last == now - last_request_time IN
       IF time_since_last < min_delay
       THEN \E j \in Uniform(0, max_delay - min_delay) :
               LET sleep_time == (min_delay - time_since_last) + j IN
               IF sleep_time < 0
               THEN /\ Answer(t, Dispatch("search", "ValueError"), "ValueError", NoValue)
                    /\ UNCHANGED wake
               ELSE /\ wake' = [wake EXCEPT ![t] = now + sleep_time]
                    /\ pc' = [pc EXCEPT ![t] = "rl_sleep"]
                    /\ UNCHANGED <<status, exc, ret>>
       ELSE /\ pc' = [pc EXCEPT ![t] = "rl_stamp"]
            /\ UNCHANGED <<wake, status, exc, ret>>
    /\ UNCHANGED <<shared, now, run, pure, opAux, route, attempt, max_retries, tmp,
                   proxy, inRetry, badFilter, opHist, runHist>>

\* time.sleep(sleep_time) returns.
apply_rate_limiting_wake(t) ==
    /\ pc[t] = "rl_sleep"
    /\ now >= wake[t]
    /\ pc' = [pc EXCEPT ![t] = "rl_stamp"]
    /\ UNCHANGED <<shared, now, run, pure, opAux, route, attempt, max_retries, tmp,
                   proxy, wake, inRetry, badFilter, status, exc, ret, opHist,
                   runHist>>

\* self.last_request_time = time.time()
apply_rate_limiting_stamp(t) ==
    /\ pc[t] = "rl_stamp"
    /\ last_request_time' = now
    /\ pc' = [pc EXCEPT ![t] = "rl_load"]
    /\ UNCHANGED <<request_count, min_delay, max_delay, proxies,
                   current_proxy_index, now, run, pure, opAux, route, attempt,
                   max_retries, tmp, proxy, wake, inRetry, badFilter, status,
                   exc, ret, opHist, runHist>>

\* self.request_count += 1, the load of the attribute
apply_rate_limiting_load(t) ==
    /\ pc[t] = "rl_load"
    /\ tmp' = [tmp EXCEPT ![t] = request_count]
    /\ pc' = [pc EXCEPT ![t] = "rl_store"]
    /\ UNCHANGED <<shared, now, run, pure, opAux, route, attempt, max_retries, proxy,
                   wake, inRetry, badFilter, status, exc, ret, opHist, runHist>>

\* self.request_count += 1, the store; the gate is passed and the route
\* enters retry_with_backoff(perform_search).
apply_rate_limiting_store(t) ==
    /\ pc[t] = "rl_store"
    /\ request_count' = tmp[t] + 1
    /\ gatePasses' = gatePasses + 1
    /\ gated' = [gated EXCEPT ![t] = gated[t] + 1]
    /\ attempt' = [attempt EXCEPT ![t] = 0]
    /\ pc' = [pc EXCEPT ![t] = "loop"]
    /\ UNCHANGED <<last_request_time, min_delay, max_delay, proxies,
                   current_proxy_index, now, run, pure, agent, sends, route, max_retries, tmp,
                   proxy, wake, inRetry, badFilter, status, exc, ret, opHist,
                   selections, nUsed, lastProxy, lastSend, lastGap, opsStarted,
                   issued>>

(***************************************************************************)
(* DatadomeProtection.retry_with_backoff: for attempt in range(max_retries)*)
(***************************************************************************)
\* The loop head.  With attempts left func() is called, and perform_search
\* starts with create_client_with_protection().  With the range exhausted the
\* function falls off its end and returns None; search_ads then reads
\* result.total, which raises AttributeError.
retry_with_backoff_loop(t) ==
    /\ pc[t] = "loop"
    /\ IF AttemptOf(t) < max_retries[t]
       THEN /\ inRetry' = [inRetry EXCEPT ![t] = FALSE]
            /\ pc' = [pc EXCEPT ![t] = "pick"]
            /\ UNCHANGED <<status, exc, ret>>
       ELSE /\ Answer(t, Dispatch("search", "AttributeError"), "AttributeError", NoValue)
            /\ UNCHANGED inRetry
    /\ UNCHANGED <<shared, now, run, pure, opAux, route, attempt, max_retries, tmp,
                   proxy, wake, badFilter, opHist, runHist>>


(***************************************************************************)
(* DatadomeProtection.get_next_proxy, called by                            *)
(* create_client_with_protection: from perform_search (the client that     *)
(* sends the attempt) and from the except branch of retry_with_backoff     *)
(* (inRetry: the client made there is dropped).                            *)
(***************************************************************************)
\* self.user_agents, by position; get_random_user_agent returns any of them.
UserAgents == 1..UserAgentCount

\* The user agent the client is built with: lbc.Client(proxy=proxy) and
\* lbc.Client() are given none, and get_random_user_agent has no caller.
ClientUserAgent(p) == NoAgent

\* Where the caller goes once create_client_with_protection has returned
\* the client it built.
AfterClient(t) ==
    /\ agent' = [agent EXCEPT ![t] = ClientUserAgent(proxy'[t])]
    /\ IF inRetry[t]
       THEN /\ attempt' = [attempt EXCEPT ![t] = attempt[t] + 1]
            /\ pc' = [pc EXCEPT ![t] = "loop"]
       ELSE /\ pc' = [pc EXCEPT ![t] = "send"]
            /\ UNCHANGED attempt

\* The cursor moved on without wrapping.
NextIndexUnwrapped(i, n) == i + 1

\* (self.current_proxy_index + 1) % len(self.proxies)
NextIndex(i, n) == (i + 1) % n

\* A selection that moves the cursor whether or not there is a proxy.
get_next_proxy_pick_advancing(t) ==
    /\ pc[t] = "pick"
    /\ picks' = [picks EXCEPT ![t] = picks[t] + 1]
    /\ IF proxies = <<>>
       THEN /\ proxy' = [proxy EXCEPT ![t] = NoProxy]
            /\ current_proxy_index' = current_proxy_index + 1
            /\ AfterClient(t)
       ELSE /\ proxy' = [proxy EXCEPT ![t] = proxies[current_proxy_index + 1]]
            /\ pc' = [pc EXCEPT ![t] = "load"]
            /\ UNCHANGED <<attempt, agent, current_proxy_index>>
    /\ UNCHANGED <<request_count, last_request_time, min_delay, max_delay,
                   proxies, now, run, pure, gated, sends, route, max_retries,
                   tmp, wake, inRetry, badFilter, status, exc, ret, outcomes,
                   waits, usedNow, prevUsed, runHist>>

\* if not self.proxies: return None
\* proxy_config = self.proxies[self.current_proxy_index]
get_next_proxy_pick(t) ==
    /\ pc[t] = "pick"
    /\ picks' = [picks EXCEPT ![t] = picks[t] + 1]
    /\ IF proxies = <<>>
       THEN /\ proxy' = [proxy EXCEPT ![t] = NoProxy]
            /\ AfterClient(t)
       ELSE /\ proxy' = [proxy EXCEPT ![t] = proxies[current_proxy_index + 1]]
            /\ pc' = [pc EXCEPT ![t] = "load"]
            /\ UNCHANGED <<attempt, agent>>
    /\ UNCHANGED <<shared, now, run, pure, gated, sends, route, max_retries, tmp, wake,
                   inRetry, badFilter, status, exc, ret, outcomes, waits,
                   usedNow, prevUsed, runHist>>

\* self.current_proxy_index = (self.current_proxy_index + 1) % len(...):
\* the load of the attribute
get_next_proxy_load(t) ==
    /\ pc[t] = "load"
    /\ tmp' = [tmp EXCEPT ![t] = current_proxy_index]
    /\ pc' = [pc EXCEPT ![t] = "store"]
    /\ UNCHANGED <<shared, now, run, pure, opAux, route, attempt, max_retries, proxy,
                   wake, inRetry, badFilter, status, exc, ret, opHist, runHist>>

\* ... and the store; the Proxy is returned and the client built.
get_next_proxy_store(t) ==
    /\ pc[t] = "store"
    /\ current_proxy_index' = NextIndex(tmp[t], Len(proxies))
    /\ selections' = selections + 1
    /\ AfterClient(t)
    /\ UNCHANGED <<request_count, last_request_time, min_delay, max_delay,
                   proxies, now, run, pure, gated, sends, route, max_retries, tmp,
                   proxy, wake,
                   inRetry, badFilter, status, exc, ret, opHist, gatePasses,
                   nUsed, lastProxy, lastSend, lastGap, opsStarted,
                   issued>>

(***************************************************************************)
(* perform_search: search_client.search(...), and what retry_with_backoff  *)
(* does with the way it ends.                                              *)
(***************************************************************************)
\* The except clauses of retry_with_backoff for an attempt that raised e.
Except(t, o, e) ==
    IF IsRetryable(e) /\ ~LastAttempt(AttemptOf(t), max_retries[t])
    THEN \E r \in {0, 1} :
            /\ wake' = [wake EXCEPT ![t] = now + WaitTime(AttemptOf(t), r)]
            /\ waits' = [waits EXCEPT ![t] = waits[t] + 1]
            /\ pc' = [pc EXCEPT ![t] = "backoff"]
            /\ UNCHANGED <<status, exc, ret>>
    ELSE /\ Answer(t, Dispatch("search", e), e, NoValue)
         /\ UNCHANGED <<wake, waits>>

\* A client that would find the mixed value types only once the request has
\* left.
perform_search_invalid_after_send(t) ==
    /\ pc[t] = "send"
    /\ badFilter[t]
    /\ RecordSend(t)
    /\ outcomes' = [outcomes EXCEPT ![t] = Append(@, [o |-> "invalid", v |-> NoValue])]
    /\ Except(t, "invalid", Raised("invalid"))
    /\ UNCHANGED <<shared, now, run, pure, agent, gated, route, attempt,
                   max_retries, tmp, proxy, inRetry, badFilter, picks, usedNow,
                   prevUsed, gatePasses, selections, nUsed, lastProxy,
                   opsStarted>>

\* An enum filter with mixed value types: the client raises InvalidValue
\* while it builds the query; nothing is sent.
perform_search_invalid(t) ==
    /\ pc[t] = "send"
    /\ badFilter[t]
    /\ outcomes' = [outcomes EXCEPT ![t] = Append(@, [o |-> "invalid", v |-> NoValue])]
    /\ Except(t, "invalid", Raised("invalid"))
    /\ UNCHANGED <<shared, now, run, pure, opAux, route, attempt, max_retries, tmp,
                   proxy, inRetry, badFilter, picks, usedNow, prevUsed, runHist>>

\* The request is sent through the client built for this attempt.
perform_search_send(t) ==
    /\ pc[t] = "send"
    /\ ~badFilter[t]
    /\ RecordSend(t)
    /\ usedNow' = [usedNow EXCEPT ![t] = proxy[t]]
    /\ prevUsed' = [prevUsed EXCEPT ![t] = usedNow[t]]
    /\ IF proxy[t] # NoProxy
       THEN nUsed' = nUsed + 1 /\ lastProxy' = proxy[t]
       ELSE UNCHANGED <<nUsed, lastProxy>>
    /\ \/ \E v \in values :
             /\ outcomes' = [outcomes EXCEPT ![t] = Append(@, [o |-> "ok", v |-> v])]
             /\ Answer(t, 200, "none", v)
             /\ UNCHANGED <<wake, waits>>
       \/ \E o \in ClientOutcomes("search") \ {"ok"} :
             /\ outcomes' = [outcomes EXCEPT ![t] = Append(@, [o |-> o, v |-> NoValue])]
             /\ Except(t, o, Raised(o))
    /\ UNCHANGED <<shared, now, run, pure, agent, gated, route, attempt, max_retries, tmp,
                   proxy, inRetry, badFilter, picks, gatePasses, selections,
                   opsStarted>>

\* time.sleep(wait_time) returns; self.create_client_with_protection() next.
retry_with_backoff_wake(t) ==
    /\ pc[t] = "backoff"
    /\ now >= wake[t]
    /\ inRetry' = [inRetry EXCEPT ![t] = TRUE]
    /\ pc' = [pc EXCEPT ![t] = "pick"]
    /\ UNCHANGED <<shared, now, run, pure, opAux, route, attempt, max_retries, tmp,
                   proxy, wake, badFilter, status, exc, ret, opHist, runHist>>

(***************************************************************************)
(* POST /api/search-url, GET /api/ad/<id>, GET /api/user/<id>: the routes  *)
(* call the module-level client directly.                                  *)
(***************************************************************************)
\* search_by_url without a body or without "url": 400.
search_by_url_bad_request(t) ==
    /\ Serves(t)
    /\ opsStarted' = opsStarted + 1
    /\ route' = [route EXCEPT ![t] = "search_url"]
    /\ Answer(t, 400, "none", NoValue)
    /\ UNCHANGED <<shared, now, run, pure, opAux, attempt, max_retries, tmp, proxy,
                   wake, inRetry, badFilter, opHist, gatePasses, selections,
                   nUsed, lastProxy, lastSend, lastGap, issued>>

\* The route is entered with a usable request.
direct_start(t, r) ==
    /\ Serves(t)
    /\ opsStarted' = opsStarted + 1
    /\ route' = [route EXCEPT ![t] = r]
    /\ pc' = [pc EXCEPT ![t] = "call"]
    /\ UNCHANGED <<shared, now, run, pure, opAux, attempt, max_retries, tmp, proxy,
                   wake, inRetry, badFilter, status, exc, ret, opHist,
                   gatePasses, selections, nUsed, lastProxy, lastSend, lastGap, issued>>

search_by_url_start(t) == direct_start(t, "search_url")
get_ad_start(t) == direct_start(t, "get_ad")
get_user_start(t) == direct_start(t, "get_user")

\* client.search(url=...), client.get_ad(ad_id), client.get_user(user_id)
\* inside the route's try block.
direct_call(t) ==
    /\ pc[t] = "call"
    /\ RecordSend(t)
    /\ \/ \E v \in values :
             /\ outcomes' = [outcomes EXCEPT ![t] = Append(@, [o |-> "ok", v |-> v])]
             /\ Answer(t, 200, "none", v)
       \/ \E o \in ClientOutcomes(route[t]) \ {"ok"} :
             /\ outcomes' = [outcomes EXCEPT ![t] = Append(@, [o |-> o, v |-> NoValue])]
             /\ Answer(t, Dispatch(route[t], Raised(o)), Raised(o), NoValue)
    /\ UNCHANGED <<shared, now, run, pure, agent, gated, route, attempt, max_retries, tmp,
                   proxy, wake, inRetry, badFilter, waits, picks, usedNow,
                   prevUsed, gatePasses, selections, nUsed, lastProxy,
                   opsStarted>>

(***************************************************************************)
(* The response is written and the thread serves the next request.         *)
(***************************************************************************)
respond(t) ==
    /\ pc[t] = "done"
    /\ pc' = [pc EXCEPT ![t] = "idle"]
    /\ attempt' = [attempt EXCEPT ![t] = 0]
    /\ max_retries' = [max_retries EXCEPT ![t] = 0]
    /\ tmp' = [tmp EXCEPT ![t] = 0]
    /\ proxy' = [proxy EXCEPT ![t] = NoProxy]
    /\ wake' = [wake EXCEPT ![t] = 0]
    /\ inRetry' = [inRetry EXCEPT ![t] = FALSE]
    /\ badFilter' = [badFilter EXCEPT ![t] = FALSE]
    /\ status' = [status EXCEPT ![t] = 0]
    /\ exc' = [exc EXCEPT ![t] = "none"]
    /\ ret' = [ret EXCEPT ![t] = NoValue]
    /\ outcomes' = [outcomes EXCEPT ![t] = <<>>]
    /\ waits' = [waits EXCEPT ![t] = 0]
    /\ picks' = [picks EXCEPT ![t] = 0]
    /\ usedNow' = [usedNow EXCEPT ![t] = NoProxy]
    /\ prevUsed' = [prevUsed EXCEPT ![t] = NoProxy]
    /\ agent' = [agent EXCEPT ![t] = NoAgent]
    /\ gated' = [gated EXCEPT ![t] = 0]
    /\ sends' = [sends EXCEPT ![t] = 0]
    /\ UNCHANGED <<shared, now, run, pure, route, runHist>>

\* One second of wall clock passes.
Tick ==
    /\ now < StartTime + horizon
    /\ now' = now + 1
    /\ UNCHANGED <<shared, run, pure, opAux, locals, opHist, runHist>>

Next ==
    \/ Tick
    \/ \E t \in Callers :
          \/ search_ads_no_data(t)
          \/ search_ads_start(t)
          \/ apply_rate_limiting_read(t)
          \/ apply_rate_limiting_wake(t)
          \/ apply_rate_limiting_stamp(t)
          \/ apply_rate_limiting_load(t)
          \/ apply_rate_limiting_store(t)
          \/ retry_with_backoff_loop(t)
          \/ get_next_proxy_pick(t)
          \/ get_next_proxy_load(t)
          \/ get_next_proxy_store(t)
          \/ perform_search_invalid(t)
          \/ perform_search_send(t)
          \/ retry_with_backoff_wake(t)
          \/ search_by_url_bad_request(t)
          \/ search_by_url_start(t)
          \/ get_ad_start(t)
          \/ get_user_start(t)
          \/ direct_call(t)
          \/ respond(t)

\* Requests served one at a time.
Spec == Init /\ [][Next]_vars

\* Two requests served concurrently by two threads.
SpecConc == InitConc /\ [][Next]_vars

\* Two requests served concurrently, one proxy in the pool.
SpecConcOneProxy == InitConcOneProxy /\ [][Next]_vars

\* Two requests served concurrently, two proxies in the pool.
SpecConcTwoProxies == InitConcTwoProxies /\ [][Next]_vars


(***************************************************************************)
(* search_ads: the names of the JSON body turned into enumeration members. *)
(***************************************************************************)
\* A value of the JSON body: a key that is absent, null, a number or a string.
Absent == [kind |-> "absent"]
Null == [kind |-> "null"]
Number(n) == [kind |-> "int", n |-> n]
String(s) == [kind |-> "str", s |-> s]

\* str.upper() on the strings the requests below carry.
upper ==
    [s \in {"TOUTES_CATEGORIES", "immobilier", "Vehicules", "RELEVANCE",
            "cheapest", "OFFER", "demand", "PRO", "Private", "all", "NOPE",
            "", "__members__"} |->
        CASE s = "immobilier" -> "IMMOBILIER"
          [] s = "Vehicules" -> "VEHICULES"
          [] s = "cheapest" -> "CHEAPEST"
          [] s = "demand" -> "DEMAND"
          [] s = "Private" -> "PRIVATE"
          [] s = "all" -> "ALL"
          [] s = "__members__" -> "__MEMBERS__"
          [] OTHER -> s]

\* The values a key of the body is given.
JsonValues == {Absent, Null, Number(0), Number(5)} \cup
              { String(s) : s \in DOMAIN upper }

\* The members of the enumerations of lbc, and the attributes every
\* enumeration class has besides its members.
Members(cls) ==
    CASE cls = "Category" -> {"TOUTES_CATEGORIES", "IMMOBILIER", "VEHICULES"}
      [] cls = "Sort" -> {"RELEVANCE", "NEWEST", "CHEAPEST"}
      [] cls = "AdType" -> {"OFFER", "DEMAND"}
      [] cls = "OwnerType" -> {"PRO", "PRIVATE", "ALL"}
ClassAttributes == {"__members__", "__name__", "__doc__", "mro"}
Member(cls, n) == [cls |-> cls, name |-> n]
None == [cls |-> "NoneType", name |-> "None"]

\* data.get(key, default): the default stands for an absent key only.
Get(v, default) == IF v = Absent THEN String(default) ELSE v

\* bool(v) of a JSON value
Truthy(v) ==
    CASE v.kind = "str" -> v.s # ""
      [] v.kind = "int" -> v.n # 0
      [] OTHER -> FALSE

\* The attribute name looked up for a string of the body, as given ...
NameKeyAsGiven(s) == s
\* ... and as the code has it: name.upper()
NameKey(s) == upper[s]

\* try: getattr(cls, name.upper()) / except AttributeError: default.
\* A value that is not a string has no upper(), which is an AttributeError
\* too; an attribute of the class that is no member is returned as it is.
Resolve(cls, v, default) ==
    IF v.kind # "str"
    THEN default
    ELSE LET n == NameKey(v.s) IN
         IF n \in Members(cls) THEN Member(cls, n)
         ELSE IF n \in ClassAttributes THEN [cls |-> "attribute", name |-> n]
         ELSE default

\* Lines 156-197 of search_ads on a body d.
ResolveNames(d) ==
    [category |-> Resolve("Category", Get(d.category, "TOUTES_CATEGORIES"),
                          Member("Category", "TOUTES_CATEGORIES")),
     sort |-> Resolve("Sort", Get(d.sort, "RELEVANCE"),
                      Member("Sort", "RELEVANCE")),
     ad_type |-> Resolve("AdType", Get(d.ad_type, "OFFER"),
                         Member("AdType", "OFFER")),
     owner_type |-> IF Truthy(d.owner_type)
                    THEN Resolve("OwnerType", d.owner_type, None)
                    ELSE None]

\* A structured search body with every combination of the four names.
InitNames ==
    /\ NoServer
    /\ arg \in [category : JsonValues, sort : JsonValues,
                ad_type : JsonValues, owner_type : JsonValues]
    /\ result = <<>>
    /\ applied = FALSE

search_ads_names ==
    /\ ~applied
    /\ result' = ResolveNames(arg)
    /\ applied' = TRUE
    /\ UNCHANGED <<shared, now, run, opAux, locals, opHist, runHist, arg>>

NextNames == search_ads_names

SpecNames == InitNames /\ [][NextNames]_vars

(***************************************************************************)
(* lbc.utils.build_search_payload_with_args: the filters handed to search  *)
(* as keyword arguments, as the tests of the payload pin them down.        *)
(***************************************************************************)
\* The filters whose value is a list of choices (the others, square and
\* price, are ranges).
EnumNames == {"rooms", "real_estate_type"}

\* The elements a list of choices is made of.
Elements == {Number(1), Number(3), String("2"), String("3")}
Lists == UNION { [1..n -> Elements] : n \in 0..MaxLen }

\* No check of the element types at all.
NoTypeCheck(vs) == TRUE

\* The elements of the list are all strings or all integers.
Homogeneous(vs) == \A i, j \in 1..Len(vs) : vs[i].kind = vs[j].kind

\* The part of the payload an enum filter contributes: InvalidValue for
\* mixed types, payload["filters"]["enums"][name] = values otherwise.
BuildEnum(name, vs) ==
    IF Homogeneous(vs)
    THEN [exc |-> "none", enums |-> [n \in {name} |-> vs]]
    ELSE [exc |-> "InvalidValue", enums |-> <<>>]

InitEnums ==
    /\ NoServer
    /\ arg \in [name : EnumNames, values : Lists]
    /\ result = <<>>
    /\ applied = FALSE

build_search_payload_with_args_enums ==
    /\ ~applied
    /\ result' = BuildEnum(arg.name, arg.values)
    /\ applied' = TRUE
    /\ UNCHANGED <<shared, now, run, opAux, locals, opHist, runHist, arg>>

NextEnums == build_search_payload_with_args_enums

SpecEnums == InitEnums /\ [][NextEnums]_vars

(***************************************************************************)
(* lbc.utils.build_search_payload_with_args and                            *)
(* build_search_payload_with_url: the two ways into the search payload.    *)
(***************************************************************************)
\* Decimal text, a sequence of characters: str(n) and int(s).
DigitChars == <<"0", "1", "2", "3", "4", "5", "6", "7", "8", "9">>
DigitValue(c) == CHOOSE d \in 0..9 : DigitChars[d + 1] = c

RECURSIVE Digits(_)
Digits(n) ==
    IF n < 10 THEN <<DigitChars[n + 1]>>
    ELSE Append(Digits(n \div 10), DigitChars[(n % 10) + 1])

RECURSIVE ParseInt(_)
ParseInt(s) ==
    IF Len(s) = 0 THEN 0
    ELSE 10 * ParseInt(SubSeq(s, 1, Len(s) - 1)) + DigitValue(s[Len(s)])

\* A coordinate, in thousandths of a degree, written with three decimals,
\* and read back: float(s).
Decimals(n) ==
    Digits(n \div 1000) \o <<".">> \o
    <<DigitChars[((n \div 100) % 10) + 1], DigitChars[((n \div 10) % 10) + 1],
      DigitChars[(n % 10) + 1]>>
Position(s, c) == CHOOSE i \in 1..Len(s) : s[i] = c /\ \A j \in 1..(i - 1) : s[j] # c
ParseDecimals(s) ==
    LET dot == Position(s, ".") IN
    1000 * ParseInt(SubSeq(s, 1, dot - 1)) + ParseInt(SubSeq(s, dot + 1, Len(s)))

\* Category.<member>.value
CategoryId(m) ==
    CASE m = "TOUTES_CATEGORIES" -> "0"
      [] m = "IMMOBILIER" -> "8"
      [] m = "VEHICULES" -> "1"

\* The filters that are ranges, the values a bound takes, and a filter
\* that is not given.
RangeNames == {"square", "price"}
RangeValues == {0, 9, 200, 400}
NoRange == <<>>
Ranges == {NoRange} \cup (RangeValues \X RangeValues)

\* City(lat, lng, radius, city)
Cities == { [city |-> "Paris", lat |-> 48860, lng |-> 2339, radius |-> 9256],
            [city |-> "Lyon", lat |-> 45764, lng |-> 4835, radius |-> 10000] }

\* The arguments of a structured search.
Arguments ==
    [text : {"maison", "velo"}, category : Members("Category"),
     locations : {<<>>} \cup { <<c>> : c \in Cities },
     square : Ranges, price : Ranges]

Given(a) == { n \in RangeNames : a[n] # NoRange }

\* payload["filters"], built from the arguments
build_search_payload_with_args(a) ==
    [category |-> [id |-> CategoryId(a.category)],
     keywords |-> [text |-> a.text],
     location |-> [locations |-> [i \in DOMAIN a.locations |->
                      [locationType |-> "city", city |-> a.locations[i].city,
                       area |-> [lat |-> a.locations[i].lat,
                                 lng |-> a.locations[i].lng,
                                 radius |-> a.locations[i].radius]]]],
     ranges |-> [n \in Given(a) |-> [min |-> a[n][1], max |-> a[n][2]]]]

\* The shared URL of the same search: category=<id>&text=<text>&
\* locations=<city>__<lat>_<lng>_<radius>&<name>=<min>-<max>
SharedUrl(a) ==
    [category |-> CategoryId(a.category),
     text |-> a.text,
     locations |-> [i \in DOMAIN a.locations |->
                       <<a.locations[i].city, Decimals(a.locations[i].lat),
                         Decimals(a.locations[i].lng),
                         Digits(a.locations[i].radius)>>],
     tokens |-> [n \in Given(a) |->
                    Digits(a[n][1]) \o <<"-">> \o Digits(a[n][2])]]

\* A token read with its two numbers exchanged.
RangeOfTokenSwapped(s) ==
    LET dash == Position(s, "-") IN
    [min |-> ParseInt(SubSeq(s, dash + 1, Len(s))),
     max |-> ParseInt(SubSeq(s, 1, dash - 1))]

\* <name>=<min>-<max>
RangeOfToken(s) ==
    LET dash == Position(s, "-") IN
    [min |-> ParseInt(SubSeq(s, 1, dash - 1)),
     max |-> ParseInt(SubSeq(s, dash + 1, Len(s)))]

\* payload["filters"], built from the URL
build_search_payload_with_url(u) ==
    [category |-> [id |-> u.category],
     keywords |-> [text |-> u.text],
     location |-> [locations |-> [i \in DOMAIN u.locations |->
                      [locationType |-> "city", city |-> u.locations[i][1],
                       area |-> [lat |-> ParseDecimals(u.locations[i][2]),
                                 lng |-> ParseDecimals(u.locations[i][3]),
                                 radius |-> ParseInt(u.locations[i][4])]]]],
     ranges |-> [n \in DOMAIN u.tokens |-> RangeOfToken(u.tokens[n])]]

NoPayload == <<>>

InitBuilders ==
    /\ NoServer
    /\ arg \in Arguments
    /\ result = [args |-> NoPayload, url |-> NoPayload]
    /\ applied = FALSE

\* The search is built from its arguments ...
search_with_args ==
    /\ result.args = NoPayload
    /\ result' = [result EXCEPT !.args = build_search_payload_with_args(arg)]
    /\ applied' = (result.url # NoPayload)
    /\ UNCHANGED <<shared, now, run, opAux, locals, opHist, runHist, arg>>

\* ... and from its shared URL.
search_with_url ==
    /\ result.url = NoPayload
    /\ result' = [result EXCEPT !.url = build_search_payload_with_url(SharedUrl(arg))]
    /\ applied' = (result.args # NoPayload)
    /\ UNCHANGED <<shared, now, run, opAux, locals, opHist, runHist, arg>>

NextBuilders == search_with_args \/ search_with_url

SpecBuilders == InitBuilders /\ [][NextBuilders]_vars

(***************************************************************************)
(* The ad of a backend answer turned into an Ad by the client, and the Ad  *)
(* written into the JSON answer of search_ads and get_ad.                  *)
(***************************************************************************)
\* price_cents of the ads the backend returns
PriceCents == 0..MaxCents \cup {50000000}

\* A price in currency units: whole units and hundredths.
\* Whole units only, the hundredths dropped.
PriceFloorDiv(cents) == [units |-> cents \div 100, hundredths |-> 0]

\* price = price_cents / 100
Price(cents) == [units |-> cents \div 100, hundredths |-> cents % 100]

\* The Ad built from an ad of the answer; id is list_id.
MapAd(raw) == [id |-> raw.list_id, price |-> Price(raw.price_cents)]

\* "id": ad.id, "price": ad.price of the JSON the route answers with
AdData(ad) == [id |-> ad.id, price |-> ad.price]

InitMapper ==
    /\ NoServer
    /\ arg \in [list_id : {1234567890}, price_cents : PriceCents]
    /\ result = <<>>
    /\ applied = FALSE

\* client.search: every ad of the answer is mapped; search_ads lists them.
search_ads_map ==
    /\ ~applied
    /\ LET ads == <<MapAd(arg)>> IN
       result' = [route |-> "search",
                  ads |-> [i \in DOMAIN ads |-> AdData(ads[i])]]
    /\ applied' = TRUE
    /\ UNCHANGED <<shared, now, run, opAux, locals, opHist, runHist, arg>>

\* client.get_ad: the answer is one ad; get_ad returns it.
get_ad_map ==
    /\ ~applied
    /\ result' = [route |-> "get_ad", ads |-> <<AdData(MapAd(arg))>>]
    /\ applied' = TRUE
    /\ UNCHANGED <<shared, now, run, opAux, locals, opHist, runHist, arg>>

NextMapper == search_ads_map \/ get_ad_map

SpecMapper == InitMapper /\ [][NextMapper]_vars

(***************************************************************************)
(* POST /api/protection/config: update_protection_config, served between   *)
(* the other requests.                                                     *)
(***************************************************************************)
\* The values a body gives min_delay and max_delay; NotGiven for a key the
\* body does not have.
ConfigValues == 0..MaxConfig
NotGiven == -1
ConfigBodies == [min_delay : ConfigValues \cup {NotGiven},
                 max_delay : ConfigValues \cup {NotGiven}]

Maximum(a, b) == IF a >= b THEN a ELSE b

\* if not data: 400.  Otherwise
\* protection.min_delay = max(1, data['min_delay']) when the key is given,
\* then protection.max_delay = max(protection.min_delay, data['max_delay'])
\* when that key is given.
update_protection_config(t) ==
    /\ Serves(t)
    /\ opsStarted' = opsStarted + 1
    /\ \E data \in ConfigBodies :
          IF data.min_delay = NotGiven /\ data.max_delay = NotGiven
          THEN UNCHANGED <<min_delay, max_delay>>
          ELSE /\ min_delay' = IF data.min_delay = NotGiven THEN min_delay
                               ELSE Maximum(1, data.min_delay)
               /\ max_delay' = IF data.max_delay = NotGiven THEN max_delay
                               ELSE Maximum(min_delay', data.max_delay)
    /\ UNCHANGED <<request_count, last_request_time, proxies,
                   current_proxy_index, now, run, pure, opAux, locals, opHist,
                   gatePasses, selections, nUsed, lastProxy, lastSend, lastGap,
                   issued>>

\* One request thread in a deployment with one proxy; the configuration is
\* updated between the searches.
InitConfig ==
    /\ InitCommon
    /\ proxies = <<1>>
    /\ threads = {1}
    /\ retryChoices = {DefaultMaxRetries}
    /\ horizon = MaxTime
    /\ opsBound = MaxOps + 1
    /\ values = {1}
    /\ NoPure

NextConfig ==
    \/ Next
    \/ \E t \in Callers : update_protection_config(t)

SpecConfig == InitConfig /\ [][NextConfig]_vars

(***************************************************************************)
(* The server left to run: every sleep ends and every thread gets on.      *)
(***************************************************************************)
\* A thread is in time.sleep and its time is not up.
Sleeping == \E t \in threads : pc[t] \in {"rl_sleep", "backoff"} /\ now < wake[t]

\* A second passes beyond the seconds otherwise explored, for a sleeper.
TickSleeping ==
    /\ now >= StartTime + horizon
    /\ Sleeping
    /\ now' = now + 1
    /\ UNCHANGED <<shared, run, pure, opAux, locals, opHist, runHist>>

\* One request thread and one proxy, two requests, the second of which
\* meets the rate gate soon after the first; retry_with_backoff is run with
\* every max_retries up to the bound.
InitLive ==
    /\ InitCommon
    /\ proxies = <<1>>
    /\ threads = {1}
    /\ retryChoices = 0..MaxRetriesBound
    /\ horizon = 1
    /\ opsBound = 2
    /\ values = {1}
    /\ NoPure

NextLive == Next \/ TickSleeping

\* The clock does not stop, and a thread that can take its next step takes
\* it: time.sleep returns, the client call returns or raises.
SpecLive ==
    /\ InitLive
    /\ [][NextLive]_vars
    /\ WF_vars(NextLive /\ now' # now)
    /\ WF_vars(NextLive /\ now' = now)

(***************************************************************************)
(* Properties.                                                             *)
(***************************************************************************)
\* The calls of func() the current run of retry_with_backoff has made, and
\* how each ended.
Calls(t) == Len(outcomes[t])
AllBlocked(t) == \A i \in 1..Calls(t) : outcomes[t][i].o = "blocked"
InSearch(t) == route[t] = "search" /\ pc[t] \notin {"idle"} /\ status[t] # 400
Direct(t) == route[t] \in {"search_url", "get_ad", "get_user"}

\* C1: for max_retries = N >= 1, retry_with_backoff calls the request at most
\* N times and only after a blocked attempt; it raises DatadomeError exactly
\* when N attempts were made and all of them were blocked; and when the
\* first attempt that is not blocked is attempt k and succeeds, it has made
\* exactly k calls and returns the value of attempt k.
C1_RetryBudget ==
    \A t \in Callers :
        (InSearch(t) /\ max_retries[t] >= 1) =>
            LET n == Calls(t) IN
            /\ n <= max_retries[t]
            /\ \A i \in 1..(n - 1) : outcomes[t][i].o = "blocked"
            /\ (n = max_retries[t] /\ AllBlocked(t)) =>
                   (pc[t] = "done" /\ exc[t] = "DatadomeError")
            /\ (pc[t] = "done" /\ exc[t] = "DatadomeError") =>
                   (n = max_retries[t] /\ AllBlocked(t))
            /\ (n >= 1 /\ outcomes[t][n].o = "ok") =>
                   /\ pc[t] = "done"
                   /\ exc[t] = "none"
                   /\ ret[t] = outcomes[t][n].v
                   /\ ret[t] # NoValue

\* A search with max_retries = 3 whose three attempts were all blocked has
\* ended in DatadomeError.
C1_Witness ==
    \E t \in Callers :
        /\ InSearch(t) /\ pc[t] = "done"
        /\ max_retries[t] = 3 /\ Calls(t) = 3 /\ AllBlocked(t)
        /\ exc[t] = "DatadomeError"

\* C2: any two requests sent to the backend are at least min_delay apart.
C2_MinSpacing == lastGap = -1 \/ lastGap >= min_delay

\* C3: an attempt that fails with anything but the block signal is the last
\* one: the failure reaches the caller, func() is not called again, no
\* backoff wait follows it and get_next_proxy is not called after it (the
\* waits and the proxy selections of the run are those of the blocked
\* attempts before it).
C3_NoRetryOnFailure ==
    \A t \in Callers :
        InSearch(t) =>
            \A i \in 1..Calls(t) :
                outcomes[t][i].o \in {"error", "timeout", "invalid"} =>
                    /\ i = Calls(t)
                    /\ pc[t] = "done"
                    /\ exc[t] = Raised(outcomes[t][i].o)
                    /\ waits[t] = i - 1
                    /\ picks[t] = 2 * i - 1

\* A search whose second attempt, after a blocked first one, failed with a
\* RequestError has ended.
C3_Witness ==
    \E t \in Callers :
        /\ InSearch(t) /\ pc[t] = "done"
        /\ Calls(t) = 2
        /\ outcomes[t][1].o = "blocked" /\ outcomes[t][2].o = "error"
        /\ exc[t] = "RequestError" /\ waits[t] = 1

\* C4: get_ad, get_user and search_by_url surface DatadomeError only after
\* the retry cycle: max_retries attempts, with a backoff wait between them.
C4_DirectRoutesRetry ==
    \A t \in Callers :
        (Direct(t) /\ pc[t] = "done" /\ exc[t] = "DatadomeError") =>
            /\ Calls(t) = DefaultMaxRetries
            /\ waits[t] = DefaultMaxRetries - 1

\* C5: with a pool of two proxies or more, the retry that follows a blocked
\* attempt is sent through another proxy than the blocked attempt.
C5_FreshIdentity ==
    \A t \in Callers :
        (Len(proxies) >= 2 /\ InSearch(t) /\ Calls(t) >= 2) =>
            usedNow[t] # prevUsed[t]

\* C6: the proxies of successive request attempts are pool[0], pool[1], ...,
\* pool[n-1], pool[0], ...: the k-th attempt of the process that goes through
\* a proxy uses entry (k - 1) mod n.
C6_RoundRobin ==
    nUsed > 0 => lastProxy = proxies[((nUsed - 1) % Len(proxies)) + 1]

\* C7: no update of the shared session state is lost: request_count counts
\* the completed rate-gate passes, the cursor has advanced once per
\* completed selection, and no two threads are inside a selection holding
\* the same proxy.
C7_NoLostUpdate ==
    /\ request_count = gatePasses
    /\ proxies # <<>> => current_proxy_index = selections % Len(proxies)
    /\ \A t, u \in Callers :
          (t # u /\ pc[t] \in {"load", "store"} /\ pc[u] \in {"load", "store"}) =>
              proxy[t] # proxy[u]

\* C8: in every route a DatadomeError that reaches the route's handlers is
\* answered with 403, never with the 500 of RequestError.
C8_BlockIsForbidden ==
    \A t \in Callers :
        (pc[t] = "done" /\ exc[t] = "DatadomeError") => status[t] = 403

\* A search that used up its retries on blocked attempts was answered 403.
C8_Witness ==
    \E t \in Callers :
        /\ InSearch(t) /\ pc[t] = "done"
        /\ max_retries[t] = 2 /\ Calls(t) = 2 /\ AllBlocked(t)
        /\ waits[t] = 1
        /\ status[t] = 403

\* C9: an InvalidValue raised while the query of a search is built is
\* answered with a client error (4xx).
C9_InvalidValueIsClientError ==
    \A t \in Callers :
        (pc[t] = "done" /\ exc[t] = "InvalidValue") =>
            (status[t] >= 400 /\ status[t] <= 499)

\* C10: a get_ad or get_user whose backend answer is not-found ends in
\* NotFoundError after one attempt and is answered 404, which is neither
\* the answer to a block nor the answer to a generic failure in that route.
C10_NotFound ==
    \A t \in Callers :
        (route[t] \in {"get_ad", "get_user"} /\ Calls(t) >= 1
            /\ outcomes[t][Calls(t)].o = "notfound") =>
            /\ pc[t] = "done"
            /\ Calls(t) = 1
            /\ waits[t] = 0
            /\ exc[t] = "NotFoundError"
            /\ status[t] = 404
            /\ Dispatch(route[t], "DatadomeError") # status[t]
            /\ Dispatch(route[t], "RequestError") # status[t]

\* A get_ad for an ad the backend does not know was answered 404.
C10_Witness ==
    \E t \in Callers :
        /\ route[t] = "get_ad" /\ pc[t] = "done"
        /\ Calls(t) = 1 /\ outcomes[t][1].o = "notfound"
        /\ status[t] = 404

\* A string names a member of an enumeration when, letter case set aside,
\* it is the name of one.
Known(cls, v) == v.kind = "str" /\ upper[v.s] \in Members(cls)
Fallback(cls, v, r, default) ==
    IF Known(cls, v) THEN r = Member(cls, upper[v.s]) ELSE r = default

\* C11: whatever category, sort, ad_type and owner_type a structured search
\* is given, a name of a member of the enumeration, in any letter case,
\* resolves to that member, and everything else resolves to
\* TOUTES_CATEGORIES, RELEVANCE, OFFER and None, without failing.
C11_NameFallback ==
    applied =>
        /\ Fallback("Category", arg.category, result.category,
                    Member("Category", "TOUTES_CATEGORIES"))
        /\ Fallback("Sort", arg.sort, result.sort, Member("Sort", "RELEVANCE"))
        /\ Fallback("AdType", arg.ad_type, result.ad_type,
                    Member("AdType", "OFFER"))
        /\ Fallback("OwnerType", arg.owner_type, result.owner_type, None)

\* An unknown category, a sort in lower case, a number as ad_type and an
\* owner_type in mixed case, resolved in one request.
C11_Witness ==
    /\ applied
    /\ arg.category = String("NOPE")
    /\ arg.sort = String("cheapest")
    /\ arg.ad_type = Number(5)
    /\ arg.owner_type = String("Private")
    /\ result.category = Member("Category", "TOUTES_CATEGORIES")
    /\ result.sort = Member("Sort", "CHEAPEST")
    /\ result.owner_type = Member("OwnerType", "PRIVATE")

\* C12: a structured search sends a request only for a query that was built
\* in full; when building the query fails nothing is sent in that
\* operation, and the operation ends with the error of the construction.
C12_NoPartialQuery ==
    \A t \in Callers :
        (InSearch(t) /\ max_retries[t] >= 1) =>
            /\ sends[t] > 0 => ~badFilter[t]
            /\ badFilter[t] => \A i \in 1..Calls(t) : outcomes[t][i].o = "invalid"
            /\ (badFilter[t] /\ pc[t] = "done") =>
                   /\ sends[t] = 0
                   /\ Calls(t) = 1
                   /\ exc[t] = "InvalidValue"

\* A search whose query cannot be built has passed the rate gate, built a
\* client and ended without a request, while an earlier search was sent.
C12_Witness ==
    \E t \in Callers :
        /\ InSearch(t)
        /\ max_retries[t] = DefaultMaxRetries
        /\ badFilter[t]
        /\ pc[t] = "done"
        /\ gated[t] = 1
        /\ picks[t] = 1
        /\ sends[t] = 0
        /\ lastSend # -1

\* C13: for every max_retries, a run of retry_with_backoff that has ended
\* made at least one attempt, and either returned the value of its last
\* attempt, which succeeded, or raised the error of its last attempt, which
\* failed; it never returns without a successful attempt.
C13_RetryOutcome ==
    \A t \in Callers :
        (InSearch(t) /\ pc[t] = "done") =>
            /\ Calls(t) >= 1
            /\ LET last == outcomes[t][Calls(t)] IN
               \/ /\ exc[t] = "none"
                  /\ last.o = "ok"
                  /\ ret[t] = last.v
               \/ /\ exc[t] # "none"
                  /\ last.o # "ok"
                  /\ exc[t] = Raised(last.o)

\* C14: with an empty proxy pool get_next_proxy hands out no proxy, every
\* request goes out through a client without a proxy, and the selections
\* leave the cursor where it was.
C14_EmptyPool ==
    proxies = <<>> =>
        /\ current_proxy_index = 0
        /\ selections = 0
        /\ nUsed = 0
        /\ \A t \in Callers : proxy[t] = NoProxy /\ usedNow[t] = NoProxy

\* With an empty pool a search was blocked, built two more clients and sent
\* its second attempt.
C14_Witness ==
    /\ proxies = <<>>
    /\ \E t \in Callers :
          /\ InSearch(t)
          /\ picks[t] = 3
          /\ sends[t] = 2

\* C15: every attempt of a search is sent by a client that was given a user
\* agent of self.user_agents, chosen when the client for the attempt was
\* built.
C15_AgentFromPool ==
    \A t \in Callers :
        (InSearch(t) /\ sends[t] > 0) => agent[t] \in UserAgents

\* C16: with two searches running at once, each run of retry_with_backoff
\* counts its own attempts only: a caller is never stopped by a block before
\* it has made max_retries attempts itself, whatever blocks the other caller
\* has met, and it never makes more than max_retries attempts.
C16_CallerLocalRetries ==
    \A t \in Callers :
        InSearch(t) =>
            /\ Calls(t) <= max_retries[t]
            /\ attempt[t] <= Calls(t)
            /\ Calls(t) <= attempt[t] + 1
            /\ (pc[t] = "done" /\ exc[t] = "DatadomeError") =>
                   Calls(t) = max_retries[t]

\* Both callers were blocked on every attempt and both used their three
\* attempts.
C16_Witness ==
    \A t \in Callers :
        /\ InSearch(t)
        /\ pc[t] = "done"
        /\ exc[t] = "DatadomeError"
        /\ Calls(t) = DefaultMaxRetries

\* C17: an enum filter whose elements are not all strings or all integers
\* makes the construction of the query raise InvalidValue; one whose
\* elements are of one type never does, and its values are found unchanged
\* and in order under filters.enums.<name>.
C17_EnumFilter ==
    applied =>
        IF \E i, j \in 1..Len(arg.values) :
               arg.values[i].kind # arg.values[j].kind
        THEN result.exc = "InvalidValue"
        ELSE /\ result.exc = "none"
             /\ DOMAIN result.enums = {arg.name}
             /\ result.enums[arg.name] = arg.values

\* rooms = [1, "2", 3] has been refused.
C17_Witness ==
    /\ applied
    /\ arg.name = "rooms"
    /\ arg.values = <<Number(1), String("2"), Number(3)>>
    /\ result.exc = "InvalidValue"

\* C18: a search given by its arguments and the same search given by its
\* shared URL are built into the same payload: the same category id, the
\* same text, the same locations and the same ranges, a token
\* <name>=<min>-<max> standing for the range [min, max].
C18_SamePayload ==
    applied =>
        /\ result.args = result.url
        /\ \A n \in RangeNames :
              arg[n] # NoRange =>
                  /\ n \in DOMAIN result.url.ranges
                  /\ result.url.ranges[n].min = arg[n][1]
                  /\ result.url.ranges[n].max = arg[n][2]

\* category=8&text=maison&locations=Paris__...&square=200-400&price=9-400
\* against the same search given by its arguments.
C18_Witness ==
    /\ applied
    /\ arg.category = "IMMOBILIER"
    /\ arg.text = "maison"
    /\ Len(arg.locations) = 1
    /\ arg.square = <<200, 400>>
    /\ arg.price = <<9, 400>>
    /\ result.url.ranges["square"] = [min |-> 200, max |-> 400]
    /\ result.url.location.locations[1].area.lat = 48860

\* C19: the price of a mapped ad, in a search result and from get_ad alike,
\* is price_cents / 100 to the hundredth: a hundred times the price is
\* price_cents.
C19_PriceFromCents ==
    applied =>
        \A i \in DOMAIN result.ads :
            /\ result.ads[i].price.hundredths \in 0..99
            /\ 100 * result.ads[i].price.units + result.ads[i].price.hundredths
                   = arg.price_cents

\* price_cents 50000000 has come back from get_ad as 500000.00.
C19_Witness ==
    /\ applied
    /\ result.route = "get_ad"
    /\ arg.price_cents = 50000000
    /\ result.ads[1].price = [units |-> 500000, hundredths |-> 0]

\* C20: every attempt of a search, each retry after a block included, has
\* passed apply_rate_limiting (the elapsed-time check and the stamp of
\* last_request_time) before it is sent: an operation never has more
\* requests sent than passes of the rate gate.
C20_GateBeforeEveryAttempt ==
    \A t \in Callers :
        InSearch(t) => sends[t] <= gated[t]

\* C24: after any sequence of configuration updates min_delay <= max_delay,
\* so that the range of the jitter of the rate gate is never negative.
C24_DelaysOrdered == min_delay <= max_delay

\* C21: a caller that reaches apply_rate_limiting less than min_delay after
\* the last stamped request sleeps until between min_delay and max_delay
\* have passed since that request (min_delay - elapsed + r with
\* 0 <= r <= max_delay - min_delay); one that reaches it later does not
\* sleep; and either way the gate then stamps last_request_time with the
\* current time.
C21_RateGate ==
    [][\A t \in Callers :
          /\ (pc[t] = "rl_read" /\ pc'[t] # "rl_read") =>
                 IF now - last_request_time < min_delay
                 THEN /\ pc'[t] = "rl_sleep"
                      /\ wake'[t] - last_request_time \in min_delay..max_delay
                 ELSE pc'[t] = "rl_stamp"
          /\ (pc[t] = "rl_stamp" /\ pc'[t] # "rl_stamp") =>
                 last_request_time' = now]_vars

\* C22: every request sent to the backend, by a search, a search by URL,
\* get_ad or get_user and by each retry, has stamped last_request_time and
\* counted in request_count: with no operation under way request_count is
\* the number of requests sent so far.
C22_CounterCountsRequests ==
    (\A t \in Callers : pc[t] = "idle") =>
        /\ request_count = issued
        /\ issued > 0 => last_request_time >= StartTime

\* C23: the wait that follows the blocked attempt with index a lasts at
\* least 2^a and at most 2^a + 1 seconds from the moment the attempt was
\* blocked, so that its lower bound doubles from one retry to the next.
C23_BackoffBounds ==
    \A t \in threads :
        (InSearch(t) /\ pc[t] = "backoff") =>
            /\ wake[t] - lastSend >= 2 ^ attempt[t]
            /\ wake[t] - lastSend <= 2 ^ attempt[t] + 1
            /\ attempt[t] = Calls(t) - 1

\* The second attempt of a search was blocked and the wait before the third
\* is the longest it can be, three seconds.
C23_Witness ==
    \E t \in threads :
        /\ InSearch(t)
        /\ pc[t] = "backoff"
        /\ attempt[t] = 1
        /\ waits[t] = 2
        /\ wake[t] - lastSend = 3

\* C25: when the attempt with index max_retries - 1 is blocked the
\* DatadomeError is raised at once: that attempt is followed by no wait and
\* by no call of get_next_proxy, so the run has waited once and selected
\* twice for each earlier attempt, and selected once for the last.
C25_NoWaitAfterLastBlock ==
    \A t \in threads :
        (InSearch(t) /\ max_retries[t] >= 1 /\ Calls(t) = max_retries[t]
            /\ AllBlocked(t)) =>
            /\ pc[t] = "done"
            /\ exc[t] = "DatadomeError"
            /\ waits[t] = max_retries[t] - 1
            /\ picks[t] = 2 * max_retries[t] - 1

\* Three attempts through a pool of three proxies were blocked: two waits
\* and five selections, the cursor left on the proxy after the fifth.
C25_Witness ==
    \E t \in threads :
        /\ InSearch(t)
        /\ Calls(t) = DefaultMaxRetries
        /\ max_retries[t] = DefaultMaxRetries
        /\ AllBlocked(t)
        /\ Len(proxies) = MaxPool
        /\ waits[t] = 2
        /\ selections = 5
        /\ current_proxy_index = 5 % MaxPool

\* C26: with a pool of n >= 1 proxies 0 <= current_proxy_index < n in every
\* state, whatever the interleaving of the selections of concurrent
\* callers, and every proxy handed out is an entry of the pool.
C26_CursorInRange ==
    proxies # <<>> =>
        /\ current_proxy_index \in 0..(Len(proxies) - 1)
        /\ \A t \in threads :
              /\ pc[t] \in {"load", "store"} => tmp[t] \in 0..(Len(proxies) - 1)
              /\ proxy[t] # NoProxy => \E i \in 1..Len(proxies) : proxies[i] = proxy[t]

\* Two callers have selected four times from two proxies, both after
\* blocks, and an update of the cursor was lost on the way: the cursor is
\* not where four selections in a row would have left it.
C26_Witness ==
    /\ Len(proxies) = 2
    /\ selections = 4
    /\ current_proxy_index = 1
    /\ \A t \in Callers : picks[t] >= 2

\* C27: a search that has entered the rate gate always comes to its end,
\* after at most max_retries attempts; when the backend has blocked every
\* one of them the end is the DatadomeError.
C27_RetryTerminates ==
    \A t \in Callers :
        (pc[t] = "rl_read") ~>
            (/\ pc[t] = "done"
             /\ Calls(t) <= max_retries[t]
             /\ (AllBlocked(t) /\ Calls(t) >= 1) => exc[t] = "DatadomeError")

\* A search whose three attempts were all blocked has ended, its waits
\* having lasted beyond the seconds otherwise explored.
C27_Witness ==
    \E t \in threads :
        /\ InSearch(t)
        /\ pc[t] = "done"
        /\ exc[t] = "DatadomeError"
        /\ Calls(t) = DefaultMaxRetries
        /\ now > StartTime + horizon

====
